---- MODULE Spec2Model ----
(***************************************************************************)
(* A model of github.com/vaelen/go-ncd-relay/relay (relay.go): the Packet  *)
(* codec (CreatePacket, IsValid, Payload, Checksum) and the Controller's    *)
(* command execution (the command methods, ExecuteCommand, ExecuteRead and  *)
(* sendCommand with its worker goroutine and the select on done/ctx.Done).  *)
(*                                                                         *)
(* PacketSpec applies the codec's functions to byte buffers drawn from a    *)
(* bounded set.  Spec runs one command of a Controller, any method, against *)
(* a stream and the device behind it; LiveSpec is Spec with a caller that   *)
(* makes progress, WorkerSpec is Spec on a stream whose calls all return.   *)
(* SeqSpec runs up to MaxCalls commands one after another on the same       *)
(* stream.                                                                  *)
(***************************************************************************)
EXTENDS Integers, Sequences, FiniteSets, TLC

VARIABLES
    codec,      \* PacketSpec: the buffer under test and the last function's result
    calls,      \* Spec: calls[i] is the i-th command invocation (caller + worker)
    ncalls,     \* Spec: number of command invocations made so far
    rx          \* Spec: bytes the device has sent and no Read has consumed yet

vars == <<codec, calls, ncalls, rx>>

----------------------------------------------------------------------------
(* Bounds of the model *)

\* length of the longest of the short buffers handed to the codec's functions
MaxLen == 4

\* number of command invocations of one behaviour
MaxCalls == 2

----------------------------------------------------------------------------
(* Bytes *)

\* a Go byte holds 0..255; byte(x) and byte arithmetic wrap modulo this
ByteMod == 256

\* the handshake byte that starts every packet
Handshake == 170

\* byte(n): Go's truncating conversion of an int (possibly negative) to a byte
Byte(n) == (n + ByteMod * ByteMod) % ByteMod

\* s[lo:hi] of Go (0-based, hi exclusive) for 0 <= lo <= hi <= len(s)
Slice(s, lo, hi) == SubSeq(s, lo + 1, hi)

----------------------------------------------------------------------------
(* Packet codec: relay.go, "Packet" and "Misc" *)

\* The passes of Checksum's loop over the bytes from+1 .. to of packet, as a
\* function of chk before them: chk += b, chk a byte (the addition wraps)
ChecksumLoop(packet, from, to) ==
    [start \in 0..(ByteMod - 1) |->
        LET chk[k \in from..to] ==
                IF k = from THEN start ELSE (chk[k - 1] + packet[k]) % ByteMod
        IN  chk[to]]

\* chk at the end of Checksum's loop over packet, evaluated 32 passes at a
\* time to keep TLC's recursion shallow: chk[j] is chk after 32*j passes
ChecksumPasses(packet) ==
    LET n == Len(packet)
        End(j) == IF 32 * j < n THEN 32 * j ELSE n
        chk[j \in 0..((n + 31) \div 32)] ==
            IF j = 0 THEN 0
            ELSE ChecksumLoop(packet, End(j - 1), End(j))[chk[j - 1]]
    IN  chk[(n + 31) \div 32]

\* a Checksum whose loop starts at the second byte
Checksum_SkipsFirst(packet) == ChecksumPasses(SubSeq(packet, 2, Len(packet)))

\* var chk byte; for _, b := range packet { chk += b }; return chk
Checksum(packet) == ChecksumPasses(packet)

\* a CreatePacket whose checksum leaves out the handshake and length bytes
CreatePacket_SumOfPayload(payload) ==
    <<Handshake, Byte(Len(payload))>> \o payload \o <<Checksum(payload)>>

CreatePacket(payload) ==
    LET header == <<Handshake, Byte(Len(payload))>>
        packet == header \o payload
    IN  packet \o <<Checksum(packet)>>

\* packet[0] == 170; indexing an empty packet panics
validHandshakePanics(packet) == Len(packet) < 1

validHandshake(packet) == packet[1] = Handshake

\* packet[1] == byte(len(packet)-3); indexing a packet of length < 2 panics
validLengthPanics(packet) == Len(packet) < 2

\* a validLength that compares with len(packet)-2
validLength_LenMinus2(packet) == packet[2] = Byte(Len(packet) - 2)

validLength(packet) == packet[2] = Byte(Len(packet) - 3)

\* packet[len(packet)-1] and packet[0:len(packet)-1] panic on an empty packet
validChecksumPanics(packet) == Len(packet) < 1

\* a validChecksum that compares the low 7 bits only
validChecksum_Low7Bits(packet) ==
    packet[Len(packet)] % 128 = Checksum(Slice(packet, 0, Len(packet) - 1)) % 128

validChecksum(packet) ==
    packet[Len(packet)] = Checksum(Slice(packet, 0, Len(packet) - 1))

\* IsValid evaluates a && b && c left to right and stops at the first false
IsValidPanics(packet) ==
    IF validHandshakePanics(packet) THEN TRUE
    ELSE IF ~validHandshake(packet) THEN FALSE
    ELSE IF validLengthPanics(packet) THEN TRUE
    ELSE IF ~validLength(packet) THEN FALSE
    ELSE validChecksumPanics(packet)

IsValid(packet) ==
    validHandshake(packet) /\ validLength(packet) /\ validChecksum(packet)

\* packet[2 : len(packet)-1] panics unless 2 <= len(packet)-1
PayloadPanics(packet) == Len(packet) - 1 < 2

\* a Payload that starts at the length byte: packet[1 : len(packet)-1]
Payload_FromLengthByte(packet) == Slice(packet, 1, Len(packet) - 1)

\* a Payload that keeps the checksum byte: packet[2:]
Payload_KeepsChecksum(packet) == Slice(packet, 2, Len(packet))

Payload(packet) == Slice(packet, 2, Len(packet) - 1)

----------------------------------------------------------------------------
(* PacketSpec: the codec's functions applied to byte buffers *)

\* n bytes b
Fill(n, b) == [k \in 1..n |-> b]

\* the byte values of the short buffers
SampleBytes == {0, 1, 48, 170, 171, 254, 255}

\* every buffer of at most MaxLen sample bytes
ShortBufs == UNION {[1..n -> SampleBytes] : n \in 0..MaxLen}

\* lengths around the largest payload length a length byte can hold
LongLens == {255, 256}

\* a buffer framed like a packet around n zero bytes: handshake, the length
\* as a byte, the zeros, and the byte sum of what precedes
ZeroFrame(n) ==
    <<Handshake, Byte(n)>> \o Fill(n, 0) \o <<Byte(Handshake + Byte(n))>>

\* the input of TestPacketChecksum
TestVectors == {<<170, 4, 254, 48, 0, 0>>}

\* the buffers the functions are applied to
Inputs ==
    ShortBufs
    \cup TestVectors
    \cup {Fill(n, b) : n \in LongLens, b \in {0, 255}}
    \cup {ZeroFrame(n) : n \in LongLens}

\* codec.op: the function applied last ("input": none yet); input: the buffer
\* drawn; packet: the Packet under test (the input itself, or what
\* CreatePacket built from it); built: packet is CreatePacket(input);
\* panic: the function panicked (index or slice bounds out of range);
\* valid, payload, chk: the results of IsValid, Payload and Checksum;
\* orig: the packet before one of its bytes was replaced;
\* split, chkA, chkB: Checksum of input[:split] and of input[split:]
NoCodec ==
    [op |-> "none", input |-> <<>>, packet |-> <<>>, built |-> FALSE,
     panic |-> FALSE, valid |-> FALSE, payload |-> <<>>, chk |-> 0,
     orig |-> <<>>, split |-> 0, chkA |-> 0, chkB |-> 0]

\* packet := CreatePacket(input)
DoCreatePacket ==
    /\ codec.op = "input"
    /\ codec' = [codec EXCEPT !.op = "CreatePacket", !.built = TRUE,
                              !.packet = CreatePacket(codec.input)]
    /\ UNCHANGED <<calls, ncalls, rx>>

\* packet.IsValid(), on a raw buffer or on a built packet
DoIsValid ==
    /\ codec.op \in {"input", "CreatePacket"}
    /\ codec' = IF IsValidPanics(codec.packet)
                THEN [codec EXCEPT !.op = "IsValid", !.panic = TRUE]
                ELSE [codec EXCEPT !.op = "IsValid", !.valid = IsValid(codec.packet)]
    /\ UNCHANGED <<calls, ncalls, rx>>

\* packet.Payload(), on a raw buffer or on a built packet
DoPayload ==
    /\ codec.op \in {"input", "CreatePacket"}
    /\ codec' = IF PayloadPanics(codec.packet)
                THEN [codec EXCEPT !.op = "Payload", !.panic = TRUE]
                ELSE [codec EXCEPT !.op = "Payload", !.payload = Payload(codec.packet)]
    /\ UNCHANGED <<calls, ncalls, rx>>

\* Checksum(input)
DoChecksum ==
    /\ codec.op = "input"
    /\ codec' = [codec EXCEPT !.op = "Checksum", !.chk = Checksum(codec.input)]
    /\ UNCHANGED <<calls, ncalls, rx>>

\* Checksum(input), Checksum(input[:k]) and Checksum(input[k:])
DoChecksumSplit ==
    /\ codec.op = "input"
    /\ \E k \in 0..Len(codec.input) :
          codec' = [codec EXCEPT
                       !.op = "ChecksumSplit", !.split = k,
                       !.chk = Checksum(codec.input),
                       !.chkA = Checksum(Slice(codec.input, 0, k)),
                       !.chkB = Checksum(Slice(codec.input, k, Len(codec.input)))]
    /\ UNCHANGED <<calls, ncalls, rx>>

\* what is added (modulo 256) to the byte that is replaced
MutationDeltas == {1, 2, 128, 255}

\* packet.IsValid() after one byte of a valid packet (a raw buffer or a built
\* packet) has been replaced by a different value
DoIsValidMutated ==
    /\ codec.op \in {"input", "CreatePacket"}
    /\ ~IsValidPanics(codec.packet)
    /\ IsValid(codec.packet)
    /\ \E k \in 1..Len(codec.packet), d \in MutationDeltas :
          LET mutated == [codec.packet EXCEPT ![k] = (@ + d) % ByteMod]
              c == [codec EXCEPT !.op = "IsValidMutated", !.orig = codec.packet,
                                 !.packet = mutated]
          IN  codec' = IF IsValidPanics(mutated)
                       THEN [c EXCEPT !.panic = TRUE]
                       ELSE [c EXCEPT !.valid = IsValid(mutated)]
    /\ UNCHANGED <<calls, ncalls, rx>>

----------------------------------------------------------------------------
(* Controller: the command methods build a request and say what they expect *)

\* the error values: nil, the package's two sentinels, and the errors a
\* stream's Write and Read return
Errors == {"nil", "ErrTimedOut", "ErrInvalidResponse", "EWrite", "ERead"}

\* uint16(index - 1): index is a uint16, so 0 - 1 wraps to 65535
U16 == 65536

\* lsb := byte(index - 1); msb := byte(index >> 8); []byte{254, code, lsb, msb}
RelayPayload(code, index) ==
    <<254, code, Byte((index - 1 + U16) % U16), Byte(index \div ByteMod)>>

\* the payload each command method hands to CreatePacket (a, b: its arguments)
RequestPayload(cmd) ==
    CASE cmd.m = "TurnOnRelay"        -> RelayPayload(48, cmd.a)
      [] cmd.m = "TurnOffRelay"       -> RelayPayload(47, cmd.a)
      [] cmd.m = "GetRelayStatus"     -> RelayPayload(44, cmd.a)
      [] cmd.m = "SetBankStatus"      -> <<254, 140, cmd.b, cmd.a>>
      [] cmd.m = "GetBankStatus"      -> <<254, 124, cmd.a>>
      [] cmd.m = "TurnOnRelayByBank"  -> <<254, 48, Byte(107 + cmd.a), cmd.b>>
      [] cmd.m = "TurnOffRelayByBank" -> <<254, Byte(99 + cmd.a), cmd.b>>
      [] cmd.m = "ReadAD8"            -> <<254, Byte(149 + cmd.a)>>
      [] cmd.m = "ReadAllAD8"         -> <<254, 166>>
      [] cmd.m = "ReadAD10"           -> <<254, Byte(149 + cmd.a)>>
      [] cmd.m = "ReadAllAD10"        -> <<254, 166>>

\* the methods that end in ExecuteCommand; the others end in ExecuteRead
CommandMethods ==
    {"TurnOnRelay", "TurnOffRelay", "SetBankStatus", "TurnOnRelayByBank",
     "TurnOffRelayByBank"}

ReadMethods ==
    {"GetRelayStatus", "GetBankStatus", "ReadAD8", "ReadAllAD8", "ReadAD10",
     "ReadAllAD10"}

\* the responseLength argument each read method gives ExecuteRead
ReadLength(m) ==
    CASE m = "ReadAllAD8"  -> 8
      [] m = "ReadAllAD10" -> 16
      [] OTHER             -> 1

\* the responseLength sendCommand gets: 4 from ExecuteCommand, n+3 from ExecuteRead
ResponseLength(m) == IF m \in CommandMethods THEN 4 ELSE ReadLength(m) + 3

----------------------------------------------------------------------------
(* Controller: what a command returns, given what sendCommand returned *)

\* a parse10Bit without the mask: (uint16(b[0]) << 8) + uint16(b[1])
parse10Bit_NoMask(b) == b[1] * 256 + b[2]

\* ((uint16(b[0]) & 3) << 8) + uint16(b[1])
parse10Bit(b) == (b[1] % 4) * 256 + b[2]

\* ExecuteCommand: the error it returns
ExecuteCommand(response, err) ==
    IF err # "nil" THEN err
    ELSE IF ~IsValid(response) THEN "ErrInvalidResponse"
    ELSE "nil"

\* an ExecuteRead that returns the payload along with ErrInvalidResponse
ExecuteRead_PayloadOnInvalid(response, err) ==
    IF err # "nil" THEN [payload |-> <<>>, err |-> err]
    ELSE [payload |-> Payload(response),
          err |-> IF IsValid(response) THEN "nil" ELSE "ErrInvalidResponse"]

\* ExecuteRead: the payload (<<>> for nil) and the error it returns
ExecuteRead(response, err) ==
    IF err # "nil" THEN [payload |-> <<>>, err |-> err]
    ELSE IF ~IsValid(response) THEN [payload |-> <<>>, err |-> "ErrInvalidResponse"]
    ELSE [payload |-> Payload(response), err |-> "nil"]

\* ReadAllAD10's loop: r[i/2] = parse10Bit(v[i : i+2]) for i = 0, 2, .., 14
ReadAllAD10Values(v) == [k \in 1..8 |-> parse10Bit(Slice(v, 2 * (k - 1), 2 * k))]

\* What a command method returns from sendCommand's (response, err):
\*   err:  the error;  val: the value as a sequence of numbers (a bool as 0/1,
\*   nil or no value as <<>>);  path: the return statement taken: "ack" (a
\*   command without data succeeded), "decoded" (the value was computed from
\*   the payload), "error" (a non-nil error), "default" (the zero value with
\*   a nil error, from a length guard).
MethodReturn(m, response, err) ==
    IF m \in CommandMethods
    THEN LET e == ExecuteCommand(response, err)
         IN  [err |-> e, val |-> <<>>, path |-> IF e = "nil" THEN "ack" ELSE "error"]
    ELSE LET r == ExecuteRead(response, err)
             v == r.payload
             failed == [err |-> r.err, val |-> <<>>, path |-> "error"]
         IN  CASE m = "GetRelayStatus" ->
                    IF r.err # "nil" THEN [failed EXCEPT !.val = <<0>>]
                    ELSE [err |-> "nil", val |-> <<IF v[1] = 1 THEN 1 ELSE 0>>,
                          path |-> "decoded"]
               [] m = "GetBankStatus" ->
                    IF r.err # "nil" THEN [failed EXCEPT !.val = <<0>>]
                    ELSE [err |-> "nil", val |-> <<v[1]>>, path |-> "decoded"]
               [] m = "ReadAD8" ->
                    IF r.err # "nil" THEN [failed EXCEPT !.val = <<0>>]
                    ELSE IF Len(v) < 1
                    THEN [err |-> "nil", val |-> <<0>>, path |-> "default"]
                    ELSE [err |-> "nil", val |-> <<v[1]>>, path |-> "decoded"]
               [] m = "ReadAllAD8" ->
                    IF r.err # "nil" THEN failed
                    ELSE [err |-> "nil", val |-> v, path |-> "decoded"]
               [] m = "ReadAD10" ->
                    IF r.err # "nil" THEN [failed EXCEPT !.val = <<0>>]
                    ELSE IF Len(v) < 2
                    THEN [err |-> "nil", val |-> <<0>>, path |-> "default"]
                    ELSE [err |-> "nil", val |-> <<parse10Bit(v)>>, path |-> "decoded"]
               [] m = "ReadAllAD10" ->
                    IF r.err # "nil" THEN failed
                    ELSE IF Len(v) < 16
                    THEN [err |-> "nil", val |-> <<>>, path |-> "default"]
                    ELSE [err |-> "nil", val |-> ReadAllAD10Values(v), path |-> "decoded"]

----------------------------------------------------------------------------
(* The environment of Spec: the arguments callers pass and the device *)

\* relay indexes callers pass (1-based; index is a uint16)
RelayIndexes == {1, 2, 256, 257, 65535}

\* the command invocations callers make: method m with arguments a and b
Commands ==
    [m : {"TurnOnRelay", "TurnOffRelay", "GetRelayStatus"}, a : RelayIndexes, b : {0}]
    \cup [m : {"SetBankStatus"}, a : {1}, b : {255}]
    \cup [m : {"GetBankStatus", "ReadAD8", "ReadAD10"}, a : {1}, b : {0}]
    \cup [m : {"TurnOnRelayByBank", "TurnOffRelayByBank"}, a : {1}, b : {1}]
    \cup [m : {"ReadAllAD8", "ReadAllAD10"}, a : {0}, b : {0}]

\* the commands of SeqSpec's callers: one without data, one that reads a byte
SeqCommands ==
    [m : {"TurnOnRelay", "GetRelayStatus"}, a : {1}, b : {0}]

\* the payload bytes the device fills a reply with: 85 is its acknowledgement
ReplyBytes == {1, 85}

\* a reply with a wrong checksum byte
Corrupt(packet) ==
    [packet EXCEPT ![Len(packet)] = (packet[Len(packet)] + 1) % ByteMod]

\* a reading of the 8 channels as the device sends it, two bytes a channel:
\* the extremes, and first bytes with bits set above the low two
AD10Reading == <<3, 255, 0, 0, 255, 255, 252, 7, 4, 0, 1, 2, 2, 3, 85, 170>>

\* the payloads of the device's replies of n bytes
ReplyPayloads(n) ==
    {Fill(n, b) : b \in ReplyBytes} \cup {p \in {AD10Reading} : Len(p) = n}

\* the replies the device may send to a request whose response is n bytes long:
\* well-formed packets of that length, and one with a bad checksum
Replies(n) ==
    LET good == {CreatePacket(p) : p \in ReplyPayloads(n - 3)}
    IN  good \cup {Corrupt(CreatePacket(Fill(n - 3, 85)))}

\* the bytes of a reply, each tagged with the call whose request it answers
Tagged(reply, i) == [k \in 1..Len(reply) |-> [byte |-> reply[k], from |-> i]]

----------------------------------------------------------------------------
(* Spec: commands of one Controller, one after another *)

CallIds == 1..MaxCalls

\* a call that has not been made
NoCall ==
    [cmd |-> [m |-> "none", a |-> 0, b |-> 0],
     pc |-> "idle", wpc |-> "idle",
     packet |-> <<>>, responseLength |-> 0, response |-> <<>>, err |-> "nil",
     bytesToWrite |-> <<>>, totalBytesRead |-> 0, ctxDone |-> FALSE,
     ret |-> [err |-> "nil", val |-> <<>>, path |-> "none"],
     sent |-> <<>>, ioErr |-> "nil", expired |-> FALSE,
     replied |-> FALSE, from |-> {}]

\* A command method is called with ctx (already done or not): it builds the
\* packet, and sendCommand makes the response buffer and the done channel,
\* starts the worker goroutine and blocks in the select.
\*   pc:   the caller: "select", "timedout" (err = ErrTimedOut is stored, the
\*         return has not read err yet), "returned"
\*   wpc:  the worker: "write", "read" (in the loops), "done" (done is closed)
\*   err, response, bytesToWrite, totalBytesRead: sendCommand's variables
\*   ret:  what the command method returned
\*   sent: the bytes the stream's Write calls accepted, in order
\*   ioErr: the error a Write or Read call of the worker returned
\*   expired: ctx was already done when the command was called
\*   replied: the device has sent its reply to this request
\*   from: the calls whose replies the bytes read into response answer
NewCall(cmd, expired) ==
    LET packet == CreatePacket(RequestPayload(cmd))
        n == ResponseLength(cmd.m)
    IN  [NoCall EXCEPT !.cmd = cmd, !.pc = "select", !.wpc = "write",
                       !.packet = packet, !.responseLength = n,
                       !.response = Fill(n, 0), !.bytesToWrite = packet,
                       !.ctxDone = expired, !.expired = expired]

\* Once a call has returned and its worker has ended, nothing refers to
\* sendCommand's variables any more: only the error it returned is kept.
Forget(c) ==
    IF c.pc = "returned" /\ c.wpc = "done"
    THEN [NoCall EXCEPT !.pc = "returned", !.wpc = "done",
                        !.ret = [err |-> c.ret.err, val |-> <<>>, path |-> "none"]]
    ELSE c

\* the caller calls commands strictly one after another: the next one only
\* after the previous one has returned
Invoke(cmd, expired) ==
    /\ ncalls < MaxCalls
    /\ ncalls > 0 => calls[ncalls].pc = "returned"
    /\ ncalls' = ncalls + 1
    /\ calls' = [i \in CallIds |->
                    IF i = ncalls + 1 THEN NewCall(cmd, expired) ELSE Forget(calls[i])]
    /\ UNCHANGED <<codec, rx>>

\* the only command of a behaviour of Spec
InvokeOnce(cmd, expired) == ncalls = 0 /\ Invoke(cmd, expired)

\* the worker after a Write or Read call returned the error e: it has stored
\* e in err, and carries on with the loop
AfterIOError_CarriesOn(c, e) == [c EXCEPT !.err = e, !.ioErr = e]

\* the worker after a Write or Read call returned the error e: it has stored
\* e in err, returns, and the deferred close(done) runs
AfterIOError(c, e) == [c EXCEPT !.err = e, !.ioErr = e, !.wpc = "done"]

\* where the worker goes once bytesToWrite is empty: to the read loop, which
\* it leaves at once when no byte is expected
AfterWriteLoop(c) ==
    IF c.totalBytesRead < c.responseLength THEN "read" ELSE "done"

\* an AfterWrite that re-offers from the last byte written on:
\* bytesToWrite = bytesToWrite[bytesWritten-1:]
AfterWrite_KeepsLastByte(c, n) ==
    LET rest == Slice(c.bytesToWrite, n - 1, Len(c.bytesToWrite))
        d == [c EXCEPT !.err = "nil",
                       !.sent = c.sent \o Slice(c.bytesToWrite, 0, n),
                       !.bytesToWrite = rest]
    IN  [d EXCEPT !.wpc = IF Len(rest) > 0 THEN "write" ELSE AfterWriteLoop(d)]

\* an AfterWrite that re-offers the packet from bytesWritten on:
\* bytesToWrite = packet[bytesWritten:]
AfterWrite_ReoffersFromPacket(c, n) ==
    LET rest == Slice(c.packet, n, Len(c.packet))
        d == [c EXCEPT !.err = "nil",
                       !.sent = c.sent \o Slice(c.bytesToWrite, 0, n),
                       !.bytesToWrite = rest]
    IN  [d EXCEPT !.wpc = IF Len(rest) > 0 THEN "write" ELSE AfterWriteLoop(d)]

\* bytesWritten, err = c.stream.Write(bytesToWrite) accepted n bytes
AfterWrite(c, n) ==
    LET rest == Slice(c.bytesToWrite, n, Len(c.bytesToWrite))
        d == [c EXCEPT !.err = "nil",
                       !.sent = c.sent \o Slice(c.bytesToWrite, 0, n),
                       !.bytesToWrite = rest]
    IN  [d EXCEPT !.wpc = IF Len(rest) > 0 THEN "write" ELSE AfterWriteLoop(d)]

\* one pass of the write loop: the stream accepts 1..len bytes
WorkerWrite(i) ==
    /\ calls[i].wpc = "write"
    /\ \E n \in 1..Len(calls[i].bytesToWrite) :
          calls' = [calls EXCEPT ![i] = AfterWrite(calls[i], n)]
    /\ UNCHANGED <<codec, ncalls, rx>>

\* one pass of the write loop: the stream's Write returns an error
WorkerWriteError(i) ==
    /\ calls[i].wpc = "write"
    /\ calls' = [calls EXCEPT ![i] = AfterIOError(calls[i], "EWrite")]
    /\ UNCHANGED <<codec, ncalls, rx>>

\* an AfterRead whose Read was offered the whole buffer: c.stream.Read(response)
AfterRead_OffersWholeBuffer(c, got) ==
    LET n == Len(got)
        total == c.totalBytesRead + n
    IN  [c EXCEPT !.err = "nil",
                  !.response = [k \in 1..Len(c.response) |->
                                   IF k <= n THEN got[k].byte ELSE c.response[k]],
                  !.from = c.from \cup {got[k].from : k \in 1..n},
                  !.totalBytesRead = total,
                  !.wpc = IF total < c.responseLength THEN "read" ELSE "done"]

\* bytesRead, err = c.stream.Read(response[totalBytesRead:]) stored the bytes
\* got (each with the call it answers) at response[totalBytesRead:]
AfterRead(c, got) ==
    LET n == Len(got)
        total == c.totalBytesRead + n
    IN  [c EXCEPT !.err = "nil",
                  !.response = [k \in 1..Len(c.response) |->
                                   IF k > c.totalBytesRead /\ k <= total
                                   THEN got[k - c.totalBytesRead].byte
                                   ELSE c.response[k]],
                  !.from = c.from \cup {got[k].from : k \in 1..n},
                  !.totalBytesRead = total,
                  !.wpc = IF total < c.responseLength THEN "read" ELSE "done"]

\* one pass of the read loop: Read blocks while the device has sent nothing,
\* and returns 1..cap of the bytes waiting
WorkerRead(i) ==
    /\ calls[i].wpc = "read"
    /\ \E n \in 1..Len(rx) :
          /\ n <= calls[i].responseLength - calls[i].totalBytesRead
          /\ calls' = [calls EXCEPT ![i] = AfterRead(calls[i], Slice(rx, 0, n))]
          /\ rx' = Slice(rx, n, Len(rx))
    /\ UNCHANGED <<codec, ncalls>>

\* one pass of the read loop: the stream's Read returns an error
WorkerReadError(i) ==
    /\ calls[i].wpc = "read"
    /\ calls' = [calls EXCEPT ![i] = AfterIOError(calls[i], "ERead")]
    /\ UNCHANGED <<codec, ncalls, rx>>

\* the device answers a request it has received in full
DeviceReply(i) ==
    /\ calls[i].sent = calls[i].packet
    /\ calls[i].pc # "idle"
    /\ ~calls[i].replied
    /\ \E reply \in Replies(calls[i].responseLength) :
          rx' = rx \o Tagged(reply, i)
    /\ calls' = [calls EXCEPT ![i].replied = TRUE]
    /\ UNCHANGED <<codec, ncalls>>

\* the deadline of the call's ctx passes while the caller waits
CtxDone(i) ==
    /\ calls[i].pc = "select"
    /\ ~calls[i].ctxDone
    /\ calls' = [calls EXCEPT ![i].ctxDone = TRUE]
    /\ UNCHANGED <<codec, ncalls, rx>>

\* a return that also ends the worker (as if the caller cancelled its I/O)
Return_StopsWorker(c) ==
    [c EXCEPT !.pc = "returned", !.wpc = "done",
              !.ret = MethodReturn(c.cmd.m, c.response, c.err)]

\* sendCommand's "return response, err" and the rest of the command method
Return(c) ==
    [c EXCEPT !.pc = "returned", !.ret = MethodReturn(c.cmd.m, c.response, c.err)]

\* select: case <-done (the worker has closed done), then the return
SelectDone(i) ==
    /\ calls[i].pc = "select"
    /\ calls[i].wpc = "done"
    /\ calls' = [calls EXCEPT ![i] = Return(calls[i])]
    /\ UNCHANGED <<codec, ncalls, rx>>

\* a select that takes the ctx.Done case only once the worker has ended
SelectTimeout_WaitsForWorker(i) ==
    /\ calls[i].pc = "select"
    /\ calls[i].ctxDone
    /\ calls[i].wpc = "done"
    /\ calls' = [calls EXCEPT ![i].pc = "timedout", ![i].err = "ErrTimedOut"]
    /\ UNCHANGED <<codec, ncalls, rx>>

\* select: case <-ctx.Done(), then err = ErrTimedOut
SelectTimeout(i) ==
    /\ calls[i].pc = "select"
    /\ calls[i].ctxDone
    /\ calls' = [calls EXCEPT ![i].pc = "timedout", ![i].err = "ErrTimedOut"]
    /\ UNCHANGED <<codec, ncalls, rx>>

\* after err = ErrTimedOut: the return reads err and response, which the
\* worker, not synchronised with the caller, may have written since
ReturnAfterTimeout(i) ==
    /\ calls[i].pc = "timedout"
    /\ calls' = [calls EXCEPT ![i] = Return(calls[i])]
    /\ UNCHANGED <<codec, ncalls, rx>>

Init ==
    /\ codec = NoCodec
    /\ calls = [i \in CallIds |-> NoCall]
    /\ ncalls = 0
    /\ rx = <<>>

\* Spec: one command, any method, from its call to its return and the end of
\* its worker
Next ==
    \/ \E cmd \in Commands, expired \in BOOLEAN : InvokeOnce(cmd, expired)
    \/ \E i \in CallIds : WorkerWrite(i)
    \/ \E i \in CallIds : WorkerWriteError(i)
    \/ \E i \in CallIds : WorkerRead(i)
    \/ \E i \in CallIds : WorkerReadError(i)
    \/ \E i \in CallIds : DeviceReply(i)
    \/ \E i \in CallIds : CtxDone(i)
    \/ \E i \in CallIds : SelectDone(i)
    \/ \E i \in CallIds : SelectTimeout(i)
    \/ \E i \in CallIds : ReturnAfterTimeout(i)

Spec == Init /\ [][Next]_vars

\* The caller's goroutine runs when it can: a select with a ready case takes
\* one, and the return after the timeout case is executed.  Nothing is
\* assumed of the worker: the stream's Write and Read may block forever.
CallerFairness ==
    \A i \in CallIds :
        /\ WF_vars(SelectDone(i) \/ SelectTimeout(i))
        /\ WF_vars(ReturnAfterTimeout(i))

\* LiveSpec: Spec, with a caller that makes progress
LiveSpec == Spec /\ CallerFairness

\* Every Write and Read call of the worker returns: with an error, or having
\* accepted or delivered at least one byte.
WorkerFairness ==
    \A i \in CallIds :
        /\ WF_vars(WorkerWrite(i) \/ WorkerWriteError(i))
        /\ WF_vars(WorkerRead(i) \/ WorkerReadError(i))

\* WorkerSpec: Spec, on a stream whose calls all return
WorkerSpec == Spec /\ WorkerFairness

\* SeqSpec: up to MaxCalls commands, one after another, on the same stream
NextSeq ==
    \/ \E cmd \in SeqCommands : Invoke(cmd, FALSE)
    \/ \E i \in CallIds : WorkerWrite(i)
    \/ \E i \in CallIds : WorkerWriteError(i)
    \/ \E i \in CallIds : WorkerRead(i)
    \/ \E i \in CallIds : WorkerReadError(i)
    \/ \E i \in CallIds : DeviceReply(i)
    \/ \E i \in CallIds : CtxDone(i)
    \/ \E i \in CallIds : SelectDone(i)
    \/ \E i \in CallIds : SelectTimeout(i)
    \/ \E i \in CallIds : ReturnAfterTimeout(i)

SeqSpec == Init /\ [][NextSeq]_vars

\* PacketSpec: one buffer, and the codec's functions applied to it
PacketInit ==
    /\ codec \in {[NoCodec EXCEPT !.op = "input", !.input = b, !.packet = b] :
                     b \in Inputs}
    /\ calls = [i \in CallIds |-> NoCall]
    /\ ncalls = 0
    /\ rx = <<>>

PacketNext ==
    \/ DoCreatePacket
    \/ DoIsValid
    \/ DoPayload
    \/ DoChecksum
    \/ DoChecksumSplit
    \/ DoIsValidMutated

PacketSpec == PacketInit /\ [][PacketNext]_vars

----------------------------------------------------------------------------
(* Claims about the codec, checked under PacketSpec *)

RECURSIVE SumRange(_, _, _)
\* s[lo] + ... + s[hi], as an integer
SumRange(s, lo, hi) ==
    IF lo > hi THEN 0
    ELSE IF lo = hi THEN s[lo]
    ELSE LET mid == (lo + hi) \div 2
         IN  SumRange(s, lo, mid) + SumRange(s, mid + 1, hi)

\* the sum of the bytes of s, as an integer
SumBytes(s) == SumRange(s, 1, Len(s))

\* C1: for a payload p of length 0..255, CreatePacket(p) is
\* [170, len(p)] ++ p ++ [c], c the sum modulo 256 of all the bytes before it;
\* payload [254,48,0,0] gives [0xAA,0x04,0xFE,0x30,0x00,0x00,0xDC].
C1_CreatePacketLayout ==
    (codec.op = "CreatePacket" /\ Len(codec.input) <= 255) =>
        LET head == <<170, Len(codec.input)>> \o codec.input
        IN  /\ codec.packet = head \o <<SumBytes(head) % 256>>
            /\ codec.input = <<254, 48, 0, 0>>
                  => codec.packet = <<170, 4, 254, 48, 0, 0, 220>>

\* CreatePacket has built the packet of the test vector
C1_Witness ==
    /\ codec.op = "CreatePacket"
    /\ codec.input = <<254, 48, 0, 0>>
    /\ codec.packet = <<170, 4, 254, 48, 0, 0, 220>>

\* C2: for a buffer b of length >= 3, IsValid(b) is true if and only if
\* b[0] = 170, b[1] is the integer len(b) - 3, and the last byte is the sum
\* modulo 256 of the bytes before it.
C2_IsValidIff ==
    (codec.op = "IsValid" /\ Len(codec.packet) >= 3) =>
        LET b == codec.packet
        IN  /\ ~codec.panic
            /\ codec.valid <=>
                  /\ b[1] = 170
                  /\ b[2] = Len(b) - 3
                  /\ b[Len(b)] = SumBytes(SubSeq(b, 1, Len(b) - 1)) % 256

\* C6: for a payload p of length 0..255, CreatePacket(p).Payload() is p.
C6_PayloadRoundTrip ==
    (codec.op = "Payload" /\ codec.built /\ Len(codec.input) <= 255) =>
        ~codec.panic /\ codec.payload = codec.input

\* Payload has returned the payload of the packet built from [254,48,0,0]
C6_Witness ==
    /\ codec.op = "Payload" /\ codec.built
    /\ codec.input = <<254, 48, 0, 0>>
    /\ codec.payload = <<254, 48, 0, 0>>

\* C7: IsValid(CreatePacket(p)) is true for a payload p of length 0..255.
C7_BuiltIsValid ==
    (codec.op = "IsValid" /\ codec.built /\ Len(codec.input) <= 255) =>
        ~codec.panic /\ codec.valid

\* IsValid has accepted the packet built from a payload of 255 bytes
C7_Witness ==
    /\ codec.op = "IsValid" /\ codec.built
    /\ Len(codec.input) = 255
    /\ codec.valid

\* C8: IsValid on a buffer of length 0, 1 or 2 returns false and does not
\* index the buffer out of bounds.
C8_ShortBufferInvalid ==
    (codec.op = "IsValid" /\ Len(codec.packet) < 3) =>
        ~codec.panic /\ ~codec.valid

\* C13: Payload on an invalid packet, the buffers of length 0, 1 and 2
\* included, does not panic (no slice bounds out of range).
C13_PayloadNeverPanics ==
    codec.op = "Payload" => ~codec.panic

\* C14: replacing the byte at any one position of a valid packet of length
\* at least 3 (handshake, length, a payload byte or the checksum) by a
\* different value gives a buffer for which IsValid is false.
C14_SingleByteMutationInvalid ==
    LET differ == {k \in 1..Len(codec.orig) : codec.packet[k] # codec.orig[k]}
    IN  (codec.op = "IsValidMutated" /\ Len(codec.orig) >= 3
            /\ IsValid(codec.orig) /\ Cardinality(differ) = 1)
        => ~codec.panic /\ ~codec.valid

\* IsValid has rejected the packet of TestPacket with a payload byte replaced
C14_Witness ==
    /\ codec.op = "IsValidMutated"
    /\ codec.orig = <<170, 4, 254, 48, 0, 0, 220>>
    /\ codec.packet = <<170, 4, 254, 48, 128, 0, 220>>
    /\ ~codec.valid

\* C15: Checksum(b) is the sum of b's bytes modulo 256, however b is sliced:
\* Checksum(a ++ b) = (Checksum(a) + Checksum(b)) mod 256; and
\* Checksum([0xAA,0x04,0xFE,0x30,0x00,0x00]) = 0xDC.
C15_ChecksumIsByteSum ==
    /\ codec.op \in {"Checksum", "ChecksumSplit"} =>
          /\ codec.chk = SumBytes(codec.input) % 256
          /\ codec.input = <<170, 4, 254, 48, 0, 0>> => codec.chk = 220
    /\ codec.op = "ChecksumSplit" =>
          codec.chk = (codec.chkA + codec.chkB) % 256

\* Checksum of [255, 255] split in the middle: the two parts' checksums add
\* up to 510, and the checksum of the whole is 254
C15_Witness ==
    /\ codec.op = "ChecksumSplit"
    /\ codec.input = <<255, 255>>
    /\ codec.split = 1
    /\ codec.chkA = 255 /\ codec.chkB = 255 /\ codec.chk = 254

----------------------------------------------------------------------------
(* Claims about a command, checked under Spec and SeqSpec *)

\* C3: if ctx.Done fires before the worker has completed the write+read unit,
\* the command returns ErrTimedOut, however the worker's later steps (its
\* assignments to err among them) interleave with the caller's return.
\* Stated for a call that has returned while its worker was still running:
\* its ctx is done, and it left the select by the ctx.Done case.
C3_TimeoutReturnsErrTimedOut ==
    \A i \in CallIds :
        (calls[i].pc = "returned" /\ calls[i].ctxDone /\ calls[i].wpc # "done")
            => calls[i].ret.err = "ErrTimedOut"

\* C4: when commands are called strictly one after another, no two workers
\* are ever pending or executing Write/Read calls on the stream.
C4_OneWorkerAtATime ==
    Cardinality({i \in CallIds : calls[i].wpc \in {"write", "read"}}) <= 1

\* C5: a command method that returns a nil error returns a value decoded from
\* the payload of a validated response (or, without data, has validated the
\* response): no return of a default value with a nil error.
C5_NoDefaultSuccess ==
    \A i \in CallIds :
        (calls[i].pc = "returned" /\ calls[i].ret.err = "nil")
            => /\ calls[i].ret.path \in {"ack", "decoded"}
               /\ IsValid(calls[i].response)

\* the sub-command byte of the three methods that take a relay index
RelayCode(m) ==
    CASE m = "TurnOnRelay" -> 48 [] m = "TurnOffRelay" -> 47 [] m = "GetRelayStatus" -> 44

\* C9: for a relay index i in 1..65535, TurnOnRelay, TurnOffRelay and
\* GetRelayStatus send the payload [254, cmd, lo, hi], cmd = 48, 47, 44,
\* lo = (i-1) mod 256 and hi = (i-1) div 256.
C9_RelayIndexLittleEndian ==
    \A i \in CallIds :
        LET c == calls[i]
        IN  (c.cmd.m \in {"TurnOnRelay", "TurnOffRelay", "GetRelayStatus"}
               /\ c.cmd.a \in 1..65535)
            => SubSeq(c.packet, 3, Len(c.packet) - 1) =
                  <<254, RelayCode(c.cmd.m), (c.cmd.a - 1) % 256, (c.cmd.a - 1) \div 256>>

\* C10: when a Write or Read call returns an error, the worker makes no
\* further Write or Read call (it has returned: done is closed), and a caller
\* whose deadline has not passed gets that very error from the command.
C10_IOErrorAbortsAndPropagates ==
    \A i \in CallIds :
        calls[i].ioErr # "nil"
            => /\ calls[i].wpc = "done"
               /\ (calls[i].pc = "returned" /\ ~calls[i].ctxDone)
                     => calls[i].ret.err = calls[i].ioErr

\* a Read failed after the request was written in full, and the command
\* returned the Read's error to a caller whose deadline had not passed
C10_Witness ==
    \E i \in CallIds :
        /\ calls[i].pc = "returned" /\ ~calls[i].ctxDone
        /\ calls[i].sent = calls[i].packet
        /\ calls[i].ioErr = "ERead"
        /\ calls[i].ret.err = "ERead"

\* s is a prefix of t
IsPrefix(s, t) == Len(s) <= Len(t) /\ s = SubSeq(t, 1, Len(s))

\* C11: a command without data makes one exchange with a response of 4 bytes.
\* It returns nil if and only if the exchange completed without error (the
\* worker has ended, no Write or Read failed) and the 4 bytes received form a
\* valid packet; a completed exchange whose bytes do not validate gives
\* ErrInvalidResponse; the request is not sent again.  Stated on the step in
\* which the command returns, from the state the return reads; the two "if"
\* parts for a caller that left the select by the done case.
C11_ExecuteCommandIff ==
    [][\A i \in CallIds :
          (calls[i].pc # "returned" /\ calls'[i].pc = "returned"
             /\ calls[i].cmd.m \in CommandMethods) =>
            LET c == calls[i]
                e == calls'[i].ret.err
                completed == c.wpc = "done" /\ c.ioErr = "nil"
                wellFormed == c.totalBytesRead = 4 /\ IsValid(c.response)
            IN  /\ c.responseLength = 4
                /\ e = "nil" => (completed /\ wellFormed)
                /\ (c.pc = "select" /\ completed /\ wellFormed) => e = "nil"
                /\ (c.pc = "select" /\ completed /\ ~wellFormed)
                      => e = "ErrInvalidResponse"
                /\ IsPrefix(c.sent, c.packet)]_vars

\* C12: a command called with a ctx that is already done returns ErrTimedOut,
\* whatever the stream does and however the worker is scheduled; and it does
\* not block: while it waits in the select, the ctx.Done case is ready.
C12_ExpiredDeadlineTimesOut ==
    \A i \in CallIds :
        calls[i].expired =>
            /\ calls[i].pc = "select" => calls[i].ctxDone
            /\ calls[i].pc = "returned" => calls[i].ret.err = "ErrTimedOut"

\* C16: whatever the partial writes (each Write accepting 1..all of the bytes
\* offered), the worker offers exactly the unwritten suffix of the request, so
\* that the bytes the stream accepted are the request packet, none lost,
\* repeated or out of order; and no Read is issued (the worker is not in the
\* read loop, nothing was read, no Read failed) before the stream has accepted
\* the whole request.
C16_PartialWritesSendRequest ==
    \A i \in CallIds :
        LET c == calls[i]
        IN  /\ c.sent \o c.bytesToWrite = c.packet
            /\ (c.wpc = "read" \/ c.totalBytesRead > 0 \/ c.ioErr = "ERead")
                  => c.sent = c.packet
            /\ (c.wpc = "done" /\ c.ioErr # "EWrite") => c.sent = c.packet

\* the stream has accepted the first 3 bytes of a 7-byte request, in one or
\* more Write calls, and the worker offers the last 4 next
C16_Witness ==
    \E i \in CallIds :
        /\ calls[i].wpc = "write"
        /\ calls[i].packet = <<170, 4, 254, 48, 0, 0, 220>>
        /\ calls[i].sent = <<170, 4, 254>>
        /\ calls[i].bytesToWrite = <<48, 0, 0, 220>>

\* C17: whatever the partial reads (each Read returning 1..capacity bytes),
\* a Read stores the bytes it takes from the stream, in their order, right
\* after the bytes already read and leaves the rest of the buffer as it was;
\* bytes leave the stream only by such a Read; the total never exceeds
\* responseLength; the worker is in the read loop only while the buffer is not
\* full, and ends without error only when it has read exactly responseLength
\* bytes.
C17_PartialReadsFillResponse ==
    /\ [](\A i \in CallIds :
            LET c == calls[i]
            IN  /\ c.totalBytesRead <= c.responseLength
                /\ c.wpc = "read" => c.totalBytesRead < c.responseLength
                /\ (c.wpc = "done" /\ c.ioErr = "nil")
                      => c.totalBytesRead = c.responseLength)
    /\ [][(\A i \in CallIds :
              (calls[i].wpc = "read"
                 /\ calls'[i].totalBytesRead # calls[i].totalBytesRead) =>
                LET c == calls[i]
                    n == calls'[i].totalBytesRead - c.totalBytesRead
                IN  /\ n >= 1 /\ n <= Len(rx)
                    /\ c.totalBytesRead + n <= c.responseLength
                    /\ rx' = SubSeq(rx, n + 1, Len(rx))
                    /\ calls'[i].response =
                          [k \in 1..c.responseLength |->
                              IF k > c.totalBytesRead /\ k <= c.totalBytesRead + n
                              THEN rx[k - c.totalBytesRead].byte
                              ELSE c.response[k]])
          /\ (Len(rx') < Len(rx) =>
                 \E i \in CallIds :
                     calls[i].wpc = "read"
                        /\ calls'[i].totalBytesRead > calls[i].totalBytesRead)]_vars

\* the worker has read the first 2 bytes of a 4-byte reply, the other 2 wait
\* in the stream, and the rest of the buffer is as make() left it
C17_Witness ==
    \E i \in CallIds :
        /\ calls[i].wpc = "read"
        /\ calls[i].responseLength = 4
        /\ calls[i].totalBytesRead = 2
        /\ calls[i].response = <<170, 1, 0, 0>>
        /\ Len(rx) = 2

\* C18: after a command has returned ErrTimedOut, no later command of the
\* Controller returns a nil error when bytes of its response are bytes the
\* device sent in reply to the request of the command that timed out.  Stated
\* for a later command that returned before its own deadline, so that the
\* bytes its worker read are the bytes of the response it returned.
C18_NoStaleReplyAccepted ==
    \A i, j \in CallIds :
        (/\ i < j
         /\ calls[i].pc = "returned" /\ calls[i].ret.err = "ErrTimedOut"
         /\ calls[j].pc = "returned" /\ calls[j].ret.err = "nil"
         /\ ~calls[j].ctxDone)
        => i \notin calls[j].from

\* C19: a command returns once the worker has closed done or ctx is done,
\* even when the stream's Write or Read blocks forever; and the worker closes
\* done exactly once on every exit path: it has closed it when a Write or a
\* Read failed and when the response is complete, and once done is closed the
\* worker takes no further step.
C19_CallReturnsAndClosesOnce ==
    /\ \A i \in CallIds :
          (calls[i].pc = "select" /\ (calls[i].wpc = "done" \/ calls[i].ctxDone))
             ~> (calls[i].pc = "returned")
    /\ [](\A i \in CallIds :
            LET c == calls[i]
            IN  /\ c.ioErr # "nil" => c.wpc = "done"
                /\ (c.pc # "idle" /\ c.bytesToWrite = <<>>
                      /\ c.totalBytesRead = c.responseLength) => c.wpc = "done")
    /\ [][\A i \in CallIds :
            calls[i].wpc = "done" =>
               /\ calls'[i].wpc = "done"
               /\ calls'[i].sent = calls[i].sent
               /\ calls'[i].totalBytesRead = calls[i].totalBytesRead
               /\ calls'[i].response = calls[i].response
               /\ calls'[i].ioErr = calls[i].ioErr]_vars

\* the first Write has not returned, the deadline has passed, and the command
\* has returned ErrTimedOut
C19_Witness ==
    \E i \in CallIds :
        /\ calls[i].pc = "returned"
        /\ calls[i].ret.err = "ErrTimedOut"
        /\ calls[i].wpc = "write"
        /\ calls[i].sent = <<>>

\* the worker's next Write call can accept all the bytes that remain
CanFinishWrite(i) == ENABLED (WorkerWrite(i) /\ calls'[i].sent = calls'[i].packet)

\* C20: cancellation is advisory only.  The caller's steps (taking the
\* ctx.Done case, returning) change nothing of the worker or of the stream,
\* and once a command has returned ErrTimedOut its worker goes on: in the
\* write loop its Write calls can still send the rest of the request, in the
\* read loop it still takes the bytes that arrive.
C20_CancellationIsAdvisory ==
    /\ [][\A i \in CallIds :
            (calls[i].pc \in {"select", "timedout"} /\ calls'[i].pc # calls[i].pc) =>
               /\ calls'[i].wpc = calls[i].wpc
               /\ calls'[i].bytesToWrite = calls[i].bytesToWrite
               /\ calls'[i].sent = calls[i].sent
               /\ calls'[i].totalBytesRead = calls[i].totalBytesRead
               /\ calls'[i].response = calls[i].response
               /\ rx' = rx]_vars
    /\ [](\A i \in CallIds :
            (calls[i].pc = "returned" /\ calls[i].ret.err = "ErrTimedOut") =>
               /\ calls[i].wpc = "write" => CanFinishWrite(i)
               /\ (calls[i].wpc = "read" /\ rx # <<>>) => ENABLED WorkerRead(i))

\* a command has returned ErrTimedOut with 3 bytes of its 7-byte request
\* written, and the next Write call of its worker sends the other 4: the
\* request is written in full after the error was returned
C20_Witness ==
    \E i \in CallIds :
        /\ calls[i].pc = "returned"
        /\ calls[i].ret.err = "ErrTimedOut"
        /\ calls[i].wpc = "write"
        /\ calls[i].sent = <<170, 4, 254>>
        /\ CanFinishWrite(i)

\* what the worker has left to do: the bytes to write and the bytes to read
Remaining(c) == Len(c.bytesToWrite) + (c.responseLength - c.totalBytesRead)

\* C21: when every Write and Read call returns, with an error or with at
\* least one byte of progress, the worker ends.  Each call of the write loop
\* either ends the worker or shortens bytesToWrite, which starts as the
\* request (so at most len(request) Writes); each call of the read loop
\* either ends the worker or raises totalBytesRead, which starts at 0 and
\* stays below responseLength in the loop (so at most responseLength Reads);
\* and a running worker eventually ends.
C21_WorkerTerminates ==
    /\ [][\A i \in CallIds :
            (calls[i].wpc \in {"write", "read"} /\ calls'[i] # calls[i]
               /\ calls'[i].pc = calls[i].pc /\ calls'[i].ctxDone = calls[i].ctxDone
               /\ calls'[i].replied = calls[i].replied) =>
               \/ calls'[i].wpc = "done"
               \/ /\ calls[i].wpc = "write"
                  /\ Len(calls'[i].bytesToWrite) < Len(calls[i].bytesToWrite)
                  /\ calls'[i].totalBytesRead = calls[i].totalBytesRead
               \/ /\ calls[i].wpc = "read" /\ calls'[i].wpc = "read"
                  /\ calls'[i].bytesToWrite = <<>>
                  /\ calls'[i].totalBytesRead > calls[i].totalBytesRead]_vars
    /\ [](\A i \in CallIds :
            /\ Len(calls[i].bytesToWrite) <= Len(calls[i].packet)
            /\ calls[i].wpc \in {"write", "read"} => Remaining(calls[i]) > 0)
    /\ \A i \in CallIds :
          (calls[i].wpc \in {"write", "read"}) ~> (calls[i].wpc = "done")

\* the worker of ReadAllAD10 has ended without error after writing its
\* 5-byte request and reading the 19 bytes of the response
C21_Witness ==
    \E i \in CallIds :
        /\ calls[i].cmd.m = "ReadAllAD10"
        /\ calls[i].wpc = "done" /\ calls[i].ioErr = "nil"
        /\ calls[i].sent = calls[i].packet
        /\ calls[i].totalBytesRead = 19

\* the payload length n each read method passes to ExecuteRead
RequestedLength(m) ==
    CASE m \in {"GetRelayStatus", "GetBankStatus", "ReadAD8", "ReadAD10"} -> 1
      [] m = "ReadAllAD8"  -> 8
      [] m = "ReadAllAD10" -> 16

\* C22: ExecuteRead(packet, n) makes an exchange with a response of n + 3
\* bytes; with a nil error it returns a payload of exactly n bytes, the bytes
\* 2 .. n+1 of the buffer received; with an error it returns a nil payload.
\* Stated on the step in which a read method returns, for what ExecuteRead
\* returns from the buffer and the error the return reads; the method passes
\* ExecuteRead's error on, and ReadAllAD8 its payload.
C22_ExecuteReadPayload ==
    [][\A i \in CallIds :
          (calls[i].pc # "returned" /\ calls'[i].pc = "returned"
             /\ calls[i].cmd.m \in ReadMethods) =>
            LET c == calls[i]
                n == RequestedLength(c.cmd.m)
                r == ExecuteRead(c.response, c.err)
            IN  /\ c.responseLength = n + 3
                /\ Len(c.response) = n + 3
                /\ calls'[i].ret.err = r.err
                /\ r.err = "nil" =>
                      /\ Len(r.payload) = n
                      /\ \A k \in 1..n : r.payload[k] = c.response[k + 2]
                /\ r.err # "nil" => r.payload = <<>>
                /\ (c.cmd.m = "ReadAllAD8") => calls'[i].ret.val = r.payload]_vars

\* ReadAllAD8 has returned the 8 payload bytes of the 11-byte response
C22_Witness ==
    \E i \in CallIds :
        /\ calls[i].pc = "returned"
        /\ calls[i].cmd.m = "ReadAllAD8"
        /\ calls[i].ret.err = "nil"
        /\ calls[i].response = <<170, 8, 85, 85, 85, 85, 85, 85, 85, 85, 90>>
        /\ calls[i].ret.val = <<85, 85, 85, 85, 85, 85, 85, 85>>

\* C23: ReadAllAD10 asks for a payload of 16 bytes and with a nil error
\* returns exactly 8 values, value i (i = 0..7) being
\* (v[2i] mod 4) * 256 + v[2i+1] for the payload v; each lies in 0..1023,
\* the pair (0x03, 0xFF) gives 1023 and (0x00, 0x00) gives 0.  Stated on the
\* step in which ReadAllAD10 returns, v being the payload of the buffer the
\* return reads.
C23_ReadAllAD10Decodes ==
    [][\A i \in CallIds :
          (calls[i].pc # "returned" /\ calls'[i].pc = "returned"
             /\ calls[i].cmd.m = "ReadAllAD10") =>
            LET v == SubSeq(calls[i].response, 3, 18)
                val == calls'[i].ret.val
            IN  /\ calls[i].responseLength = 16 + 3
                /\ calls'[i].ret.err = "nil" =>
                      /\ Len(val) = 8
                      /\ \A k \in 0..7 :
                            /\ val[k + 1] = (v[2 * k + 1] % 4) * 256 + v[2 * k + 2]
                            /\ val[k + 1] \in 0..1023
                            /\ (v[2 * k + 1] = 3 /\ v[2 * k + 2] = 255)
                                  => val[k + 1] = 1023
                            /\ (v[2 * k + 1] = 0 /\ v[2 * k + 2] = 0)
                                  => val[k + 1] = 0]_vars

\* ReadAllAD10 has returned the 8 values of the reading the device sent
C23_Witness ==
    \E i \in CallIds :
        /\ calls[i].pc = "returned"
        /\ calls[i].cmd.m = "ReadAllAD10"
        /\ calls[i].ret.err = "nil"
        /\ SubSeq(calls[i].response, 3, 18) = AD10Reading
        /\ calls[i].ret.val = <<1023, 0, 1023, 7, 0, 258, 515, 426>>

\* C24: GetRelayStatus, when the exchange succeeded and the response is
\* valid, returns true (1) if and only if the payload byte is 1, with a nil
\* error; otherwise it returns false (0) with the error.  Stated on the step
\* in which GetRelayStatus returns, for the buffer and the error the return
\* reads.
C24_GetRelayStatusDecodes ==
    [][\A i \in CallIds :
          (calls[i].pc # "returned" /\ calls'[i].pc = "returned"
             /\ calls[i].cmd.m = "GetRelayStatus") =>
            LET c == calls[i]
                ret == calls'[i].ret
                succeeded == c.err = "nil" /\ IsValid(c.response)
            IN  /\ Len(c.response) = 4
                /\ succeeded =>
                      /\ ret.err = "nil"
                      /\ ret.val = <<1>> <=> c.response[3] = 1
                      /\ ret.val = <<0>> <=> c.response[3] # 1
                /\ ~succeeded =>
                      /\ ret.err # "nil"
                      /\ ret.err = IF c.err # "nil" THEN c.err ELSE "ErrInvalidResponse"
                      /\ ret.val = <<0>>]_vars

\* GetRelayStatus has returned false for the valid response whose payload
\* byte is 85
C24_Witness ==
    \E i \in CallIds :
        /\ calls[i].pc = "returned"
        /\ calls[i].cmd.m = "GetRelayStatus"
        /\ calls[i].response = <<170, 1, 85, 0>>
        /\ calls[i].totalBytesRead = 4
        /\ calls[i].ret = [err |-> "nil", val |-> <<0>>, path |-> "decoded"]

====
